---- MODULE Spec2Model ----
(***************************************************************************)
(* Model of src/app.py: the "Analyze Data" handler of the skincare report  *)
(* tool and the three analysis functions it calls                          *)
(* (analyze_product_mentions, get_trending_keywords, trace_manufacturer).  *)
(*                                                                         *)
(* The functions work on the characters of their arguments: lower(), the   *)
(* regular expressions, the substring tests and the string order used by   *)
(* groupby are computed on sequences of one-character strings.  The names  *)
(* the program keeps as they are (products, categories, sentiments) and    *)
(* the pieces of its input are TLA+ strings, and Spell gives the           *)
(* characters of each.                                                     *)
(***************************************************************************)
EXTENDS Integers, Sequences, FiniteSets, TLC

VARIABLES
  user_text,          \* the text area: its raw lines (split on "\n"), each line a
                      \* sequence of pieces whose characters follow one another
  selected_products,  \* the multiselect's value: a sequence of product names
  sid,                \* the sentiment scorer: the compound score, in 1/10000, of
                      \* each comment of text_lines, by position
  pc,                 \* position of the button handler
  warning,            \* st.warning shown by the handler ("" when none)
  text_lines,         \* app.py:223, as the positions in user_text of the lines kept;
                      \* the comment is the stripped line (CommentsOf)
  product_mentions,   \* app.py:46, the emitted Mention records in emission order
  grouped,            \* app.py:61, the group-by result before the sort
  df_summary,         \* app.py:62 / app.py:225
  all_words,          \* app.py:66, the retained tokens of all comments (as strings)
  df_keywords,        \* app.py:226 (the phrases as strings)
  top_2_products,     \* app.py:230, the products still to be looked up
  manufacturer_info,  \* app.py:228
  invoked,            \* the functions this run has called
  scored,             \* the comments passed to polarity_scores, in call order, by
                      \* position in text_lines
  lookups,            \* the product names passed to trace_manufacturer, in call order
  error               \* the exception that ended the run ("" when none)

vars == <<user_text, selected_products, sid, pc, warning, text_lines, product_mentions,
          grouped, df_summary, all_words, df_keywords, top_2_products, manufacturer_info,
          invoked, scored, lookups, error>>

-----------------------------------------------------------------------------
(* The tables of app.py *)

\* app.py:23-38
STOP_WORDS_LITERAL ==
  {
    "a", "about", "above", "after", "again", "against", "all", "am", "an", "and", "any",
    "are", "aren't", "as", "at", "be", "because", "been", "before", "being", "below",
    "between", "both", "but", "by", "can", "can't", "cannot", "could", "couldn't", "did",
    "didn't", "do", "does", "doesn't", "doing", "don", "don't", "down", "during", "each",
    "few", "for", "from", "further", "had", "hadn't", "has", "hasn't", "have", "haven't",
    "having", "he", "he'd", "he'll", "he's", "her", "here", "here's", "hers", "herself",
    "him", "himself", "his", "how", "how's", "i", "i'd", "i'll", "i'm", "i've", "if", "in",
    "into", "is", "isn't", "it", "it's", "its", "itself", "let's", "me", "more", "most",
    "mustn't", "my", "myself", "no", "nor", "not", "of", "off", "on", "once", "only", "or",
    "other", "ought", "our", "ours", "ourselves", "out", "over", "own", "same", "shan",
    "shan't", "she", "she'd", "she'll", "she's", "should", "shouldn't", "so", "some",
    "such", "than", "that", "that's", "the", "their", "theirs", "them", "themselves",
    "then", "there", "there's", "these", "they", "they'd", "they'll", "they're", "they've",
    "this", "those", "through", "to", "too", "under", "until", "up", "very", "was",
    "wasn't", "we", "we'd", "we'll", "we're", "we've", "were", "weren't", "what", "what's",
    "when", "when's", "where", "where's", "which", "while", "who", "who's", "whom", "why",
    "why's", "with", "won", "won't", "would", "wouldn't", "you", "you'd", "you'll",
    "you're", "you've", "your", "yours", "yourself", "yourselves"
  }

\* app.py:39
STOP_WORDS_UPDATE ==
  {
    "skin", "product", "products", "use", "using", "like", "get", "help", "really", "ive",
    "im", "would", "routine", "feel", "look"
  }

STOP_WORDS == STOP_WORDS_LITERAL \cup STOP_WORDS_UPDATE

\* app.py:199
DEFAULT_PRODUCTS ==
  <<
    "CeraVe", "The Ordinary", "La Roche-Posay", "Paula's Choice", "SkinCeuticals",
    "Drunk Elephant", "Supergoop", "EltaMD", "Tretinoin", "Kojic Acid", "Azelaic Acid",
    "Niacinamide", "Hyaluronic Acid", "Vitamin C Serum", "Anthelios"
  >>

\* app.py:200-207: a dict keeps the order of its literal
CLAIM_KEYWORDS ==
  <<
    [claim |-> "Fades Dark Spots / Hyperpigmentation",
     keywords |-> <<"hyperpigmentation", "dark spots", "pih", "melasma", "even tone",
                    "brighter">>],
    [claim |-> "Helps Acne / Breakouts",
     keywords |-> <<"acne", "pimples", "breakouts", "clogged pores", "comedones">>],
    [claim |-> "Anti-Aging / Wrinkles",
     keywords |-> <<"anti-aging", "wrinkles", "fine lines", "aging", "retinol",
                    "tretinoin">>],
    [claim |-> "Hydration / Moisturizing",
     keywords |-> <<"hydration", "dry skin", "moisture", "hydrating", "moisturizer",
                    "plump">>],
    [claim |-> "Sun Protection",
     keywords |-> <<"sunscreen", "spf", "sun protection", "uv", "white cast">>],
    [claim |-> "Improves Skin Texture",
     keywords |-> <<"texture", "smooth", "bumpy", "keratosis pilaris", "kp", "pores">>]
  >>

\* app.py:209, the default of the text input
platform_name == "TikTok / Online Forums"

-----------------------------------------------------------------------------
(* The pieces of input the specifications draw from *)

\* lines of the text area
RawLines ==
  {<<"  ">>,
   <<" I hate CeraVe and Supergoop spf!">>,
   <<"supergoop, EltaMD: SPF">>}

\* the products offered for selection
Offered == <<"CeraVe", "Supergoop", "EltaMD">>

\* pieces of a comment, for the whole-word match
MatchPieces == {"CeraVe", "cerave", "s", "s ", " ", "-", "_", "Kojic", "ACID"}

MatchProducts == <<"CeraVe", "Kojic Acid">>

\* pieces of a comment, for the claim categories
ClaimPieces == {" acne", " SPF", " pih", " kp", " anti-aging", " clogged", " Pores", "s"}

\* comments that name CeraVe, for the sentiment
SentimentText == << <<"CeraVe">>, <<"cerave!">>, <<"so, CERAVE?">> >>

\* lines for the keyword extraction
KeywordLines ==
  {<<"Dark spots, the acid!">>,
   <<"acid dark">>,
   <<"SPF_50 isn't on">>,
   <<"CeraVe for dark spots">>,
   <<"uv acid">>,
   <<"I'm">>}

\* the href of the first result link of a page
Hrefs == {"", "//duckduckgo.com/l/?uddg=https%3A%2F%2Fcerave.com"}

-----------------------------------------------------------------------------
(* Characters and Python's str operations *)

\* the characters used, in code point order (Python compares str by code point)
Ascii ==
  <<" ", "!", "%", "'", ",", "-", ".", "/", "0", "1", "2", "3", "4", "5", "6", "7", "8",
    "9", ":", "=", "?", "A", "B", "C", "D", "E", "F", "G", "H", "I", "J", "K", "L", "M",
    "N", "O", "P", "Q", "R", "S", "T", "U", "V", "W", "X", "Y", "Z", "_", "a", "b", "c",
    "d", "e", "f", "g", "h", "i", "j", "k", "l", "m", "n", "o", "p", "q", "r", "s", "t",
    "u", "v", "w", "x", "y", "z">>

UpperCase == <<"A","B","C","D","E","F","G","H","I","J","K","L","M","N","O","P","Q","R","S","T","U","V","W","X","Y","Z">>
LowerCase == <<"a","b","c","d","e","f","g","h","i","j","k","l","m","n","o","p","q","r","s","t","u","v","w","x","y","z">>
Digits == <<"0","1","2","3","4","5","6","7","8","9">>

Range(s) == {s[i] : i \in 1..Len(s)}

\* the strings of the tables and of the input, the words of the input lines and the
\* phrases of two of them, each with its characters
Spelling ==
  <<
    <<"a", <<"a">>>>,
    <<"about", <<"a","b","o","u","t">>>>,
    <<"above", <<"a","b","o","v","e">>>>,
    <<"after", <<"a","f","t","e","r">>>>,
    <<"again", <<"a","g","a","i","n">>>>,
    <<"against", <<"a","g","a","i","n","s","t">>>>,
    <<"all", <<"a","l","l">>>>,
    <<"am", <<"a","m">>>>,
    <<"an", <<"a","n">>>>,
    <<"and", <<"a","n","d">>>>,
    <<"any", <<"a","n","y">>>>,
    <<"are", <<"a","r","e">>>>,
    <<"aren't", <<"a","r","e","n","'","t">>>>,
    <<"as", <<"a","s">>>>,
    <<"at", <<"a","t">>>>,
    <<"be", <<"b","e">>>>,
    <<"because", <<"b","e","c","a","u","s","e">>>>,
    <<"been", <<"b","e","e","n">>>>,
    <<"before", <<"b","e","f","o","r","e">>>>,
    <<"being", <<"b","e","i","n","g">>>>,
    <<"below", <<"b","e","l","o","w">>>>,
    <<"between", <<"b","e","t","w","e","e","n">>>>,
    <<"both", <<"b","o","t","h">>>>,
    <<"but", <<"b","u","t">>>>,
    <<"by", <<"b","y">>>>,
    <<"can", <<"c","a","n">>>>,
    <<"can't", <<"c","a","n","'","t">>>>,
    <<"cannot", <<"c","a","n","n","o","t">>>>,
    <<"could", <<"c","o","u","l","d">>>>,
    <<"couldn't", <<"c","o","u","l","d","n","'","t">>>>,
    <<"did", <<"d","i","d">>>>,
    <<"didn't", <<"d","i","d","n","'","t">>>>,
    <<"do", <<"d","o">>>>,
    <<"does", <<"d","o","e","s">>>>,
    <<"doesn't", <<"d","o","e","s","n","'","t">>>>,
    <<"doing", <<"d","o","i","n","g">>>>,
    <<"don", <<"d","o","n">>>>,
    <<"don't", <<"d","o","n","'","t">>>>,
    <<"down", <<"d","o","w","n">>>>,
    <<"during", <<"d","u","r","i","n","g">>>>,
    <<"each", <<"e","a","c","h">>>>,
    <<"few", <<"f","e","w">>>>,
    <<"for", <<"f","o","r">>>>,
    <<"from", <<"f","r","o","m">>>>,
    <<"further", <<"f","u","r","t","h","e","r">>>>,
    <<"had", <<"h","a","d">>>>,
    <<"hadn't", <<"h","a","d","n","'","t">>>>,
    <<"has", <<"h","a","s">>>>,
    <<"hasn't", <<"h","a","s","n","'","t">>>>,
    <<"have", <<"h","a","v","e">>>>,
    <<"haven't", <<"h","a","v","e","n","'","t">>>>,
    <<"having", <<"h","a","v","i","n","g">>>>,
    <<"he", <<"h","e">>>>,
    <<"he'd", <<"h","e","'","d">>>>,
    <<"he'll", <<"h","e","'","l","l">>>>,
    <<"he's", <<"h","e","'","s">>>>,
    <<"her", <<"h","e","r">>>>,
    <<"here", <<"h","e","r","e">>>>,
    <<"here's", <<"h","e","r","e","'","s">>>>,
    <<"hers", <<"h","e","r","s">>>>,
    <<"herself", <<"h","e","r","s","e","l","f">>>>,
    <<"him", <<"h","i","m">>>>,
    <<"himself", <<"h","i","m","s","e","l","f">>>>,
    <<"his", <<"h","i","s">>>>,
    <<"how", <<"h","o","w">>>>,
    <<"how's", <<"h","o","w","'","s">>>>,
    <<"i", <<"i">>>>,
    <<"i'd", <<"i","'","d">>>>,
    <<"i'll", <<"i","'","l","l">>>>,
    <<"i'm", <<"i","'","m">>>>,
    <<"i've", <<"i","'","v","e">>>>,
    <<"if", <<"i","f">>>>,
    <<"in", <<"i","n">>>>,
    <<"into", <<"i","n","t","o">>>>,
    <<"is", <<"i","s">>>>,
    <<"isn't", <<"i","s","n","'","t">>>>,
    <<"it", <<"i","t">>>>,
    <<"it's", <<"i","t","'","s">>>>,
    <<"its", <<"i","t","s">>>>,
    <<"itself", <<"i","t","s","e","l","f">>>>,
    <<"let's", <<"l","e","t","'","s">>>>,
    <<"me", <<"m","e">>>>,
    <<"more", <<"m","o","r","e">>>>,
    <<"most", <<"m","o","s","t">>>>,
    <<"mustn't", <<"m","u","s","t","n","'","t">>>>,
    <<"my", <<"m","y">>>>,
    <<"myself", <<"m","y","s","e","l","f">>>>,
    <<"no", <<"n","o">>>>,
    <<"nor", <<"n","o","r">>>>,
    <<"not", <<"n","o","t">>>>,
    <<"of", <<"o","f">>>>,
    <<"off", <<"o","f","f">>>>,
    <<"on", <<"o","n">>>>,
    <<"once", <<"o","n","c","e">>>>,
    <<"only", <<"o","n","l","y">>>>,
    <<"or", <<"o","r">>>>,
    <<"other", <<"o","t","h","e","r">>>>,
    <<"ought", <<"o","u","g","h","t">>>>,
    <<"our", <<"o","u","r">>>>,
    <<"ours", <<"o","u","r","s">>>>,
    <<"ourselves", <<"o","u","r","s","e","l","v","e","s">>>>,
    <<"out", <<"o","u","t">>>>,
    <<"over", <<"o","v","e","r">>>>,
    <<"own", <<"o","w","n">>>>,
    <<"same", <<"s","a","m","e">>>>,
    <<"shan", <<"s","h","a","n">>>>,
    <<"shan't", <<"s","h","a","n","'","t">>>>,
    <<"she", <<"s","h","e">>>>,
    <<"she'd", <<"s","h","e","'","d">>>>,
    <<"she'll", <<"s","h","e","'","l","l">>>>,
    <<"she's", <<"s","h","e","'","s">>>>,
    <<"should", <<"s","h","o","u","l","d">>>>,
    <<"shouldn't", <<"s","h","o","u","l","d","n","'","t">>>>,
    <<"so", <<"s","o">>>>,
    <<"some", <<"s","o","m","e">>>>,
    <<"such", <<"s","u","c","h">>>>,
    <<"than", <<"t","h","a","n">>>>,
    <<"that", <<"t","h","a","t">>>>,
    <<"that's", <<"t","h","a","t","'","s">>>>,
    <<"the", <<"t","h","e">>>>,
    <<"their", <<"t","h","e","i","r">>>>,
    <<"theirs", <<"t","h","e","i","r","s">>>>,
    <<"them", <<"t","h","e","m">>>>,
    <<"themselves", <<"t","h","e","m","s","e","l","v","e","s">>>>,
    <<"then", <<"t","h","e","n">>>>,
    <<"there", <<"t","h","e","r","e">>>>,
    <<"there's", <<"t","h","e","r","e","'","s">>>>,
    <<"these", <<"t","h","e","s","e">>>>,
    <<"they", <<"t","h","e","y">>>>,
    <<"they'd", <<"t","h","e","y","'","d">>>>,
    <<"they'll", <<"t","h","e","y","'","l","l">>>>,
    <<"they're", <<"t","h","e","y","'","r","e">>>>,
    <<"they've", <<"t","h","e","y","'","v","e">>>>,
    <<"this", <<"t","h","i","s">>>>,
    <<"those", <<"t","h","o","s","e">>>>,
    <<"through", <<"t","h","r","o","u","g","h">>>>,
    <<"to", <<"t","o">>>>,
    <<"too", <<"t","o","o">>>>,
    <<"under", <<"u","n","d","e","r">>>>,
    <<"until", <<"u","n","t","i","l">>>>,
    <<"up", <<"u","p">>>>,
    <<"very", <<"v","e","r","y">>>>,
    <<"was", <<"w","a","s">>>>,
    <<"wasn't", <<"w","a","s","n","'","t">>>>,
    <<"we", <<"w","e">>>>,
    <<"we'd", <<"w","e","'","d">>>>,
    <<"we'll", <<"w","e","'","l","l">>>>,
    <<"we're", <<"w","e","'","r","e">>>>,
    <<"we've", <<"w","e","'","v","e">>>>,
    <<"were", <<"w","e","r","e">>>>,
    <<"weren't", <<"w","e","r","e","n","'","t">>>>,
    <<"what", <<"w","h","a","t">>>>,
    <<"what's", <<"w","h","a","t","'","s">>>>,
    <<"when", <<"w","h","e","n">>>>,
    <<"when's", <<"w","h","e","n","'","s">>>>,
    <<"where", <<"w","h","e","r","e">>>>,
    <<"where's", <<"w","h","e","r","e","'","s">>>>,
    <<"which", <<"w","h","i","c","h">>>>,
    <<"while", <<"w","h","i","l","e">>>>,
    <<"who", <<"w","h","o">>>>,
    <<"who's", <<"w","h","o","'","s">>>>,
    <<"whom", <<"w","h","o","m">>>>,
    <<"why", <<"w","h","y">>>>,
    <<"why's", <<"w","h","y","'","s">>>>,
    <<"with", <<"w","i","t","h">>>>,
    <<"won", <<"w","o","n">>>>,
    <<"won't", <<"w","o","n","'","t">>>>,
    <<"would", <<"w","o","u","l","d">>>>,
    <<"wouldn't", <<"w","o","u","l","d","n","'","t">>>>,
    <<"you", <<"y","o","u">>>>,
    <<"you'd", <<"y","o","u","'","d">>>>,
    <<"you'll", <<"y","o","u","'","l","l">>>>,
    <<"you're", <<"y","o","u","'","r","e">>>>,
    <<"you've", <<"y","o","u","'","v","e">>>>,
    <<"your", <<"y","o","u","r">>>>,
    <<"yours", <<"y","o","u","r","s">>>>,
    <<"yourself", <<"y","o","u","r","s","e","l","f">>>>,
    <<"yourselves", <<"y","o","u","r","s","e","l","v","e","s">>>>,
    <<"skin", <<"s","k","i","n">>>>,
    <<"product", <<"p","r","o","d","u","c","t">>>>,
    <<"products", <<"p","r","o","d","u","c","t","s">>>>,
    <<"use", <<"u","s","e">>>>,
    <<"using", <<"u","s","i","n","g">>>>,
    <<"like", <<"l","i","k","e">>>>,
    <<"get", <<"g","e","t">>>>,
    <<"help", <<"h","e","l","p">>>>,
    <<"really", <<"r","e","a","l","l","y">>>>,
    <<"ive", <<"i","v","e">>>>,
    <<"im", <<"i","m">>>>,
    <<"routine", <<"r","o","u","t","i","n","e">>>>,
    <<"feel", <<"f","e","e","l">>>>,
    <<"look", <<"l","o","o","k">>>>,
    <<"CeraVe", <<"C","e","r","a","V","e">>>>,
    <<"The Ordinary", <<"T","h","e"," ","O","r","d","i","n","a","r","y">>>>,
    <<"La Roche-Posay", <<"L","a"," ","R","o","c","h","e","-","P","o","s","a","y">>>>,
    <<"Paula's Choice", <<"P","a","u","l","a","'","s"," ","C","h","o","i","c","e">>>>,
    <<"SkinCeuticals", <<"S","k","i","n","C","e","u","t","i","c","a","l","s">>>>,
    <<"Drunk Elephant", <<"D","r","u","n","k"," ","E","l","e","p","h","a","n","t">>>>,
    <<"Supergoop", <<"S","u","p","e","r","g","o","o","p">>>>,
    <<"EltaMD", <<"E","l","t","a","M","D">>>>,
    <<"Tretinoin", <<"T","r","e","t","i","n","o","i","n">>>>,
    <<"Kojic Acid", <<"K","o","j","i","c"," ","A","c","i","d">>>>,
    <<"Azelaic Acid", <<"A","z","e","l","a","i","c"," ","A","c","i","d">>>>,
    <<"Niacinamide", <<"N","i","a","c","i","n","a","m","i","d","e">>>>,
    <<"Hyaluronic Acid", <<"H","y","a","l","u","r","o","n","i","c"," ","A","c","i","d">>>>,
    <<"Vitamin C Serum", <<"V","i","t","a","m","i","n"," ","C"," ","S","e","r","u","m">>>>,
    <<"Anthelios", <<"A","n","t","h","e","l","i","o","s">>>>,
    <<"Fades Dark Spots / Hyperpigmentation", <<"F","a","d","e","s"," ","D","a","r","k"," ","S","p","o","t","s"," ","/"," ","H","y","p","e","r","p","i","g","m","e","n","t","a","t","i","o","n">>>>,
    <<"hyperpigmentation", <<"h","y","p","e","r","p","i","g","m","e","n","t","a","t","i","o","n">>>>,
    <<"dark spots", <<"d","a","r","k"," ","s","p","o","t","s">>>>,
    <<"pih", <<"p","i","h">>>>,
    <<"melasma", <<"m","e","l","a","s","m","a">>>>,
    <<"even tone", <<"e","v","e","n"," ","t","o","n","e">>>>,
    <<"brighter", <<"b","r","i","g","h","t","e","r">>>>,
    <<"Helps Acne / Breakouts", <<"H","e","l","p","s"," ","A","c","n","e"," ","/"," ","B","r","e","a","k","o","u","t","s">>>>,
    <<"acne", <<"a","c","n","e">>>>,
    <<"pimples", <<"p","i","m","p","l","e","s">>>>,
    <<"breakouts", <<"b","r","e","a","k","o","u","t","s">>>>,
    <<"clogged pores", <<"c","l","o","g","g","e","d"," ","p","o","r","e","s">>>>,
    <<"comedones", <<"c","o","m","e","d","o","n","e","s">>>>,
    <<"Anti-Aging / Wrinkles", <<"A","n","t","i","-","A","g","i","n","g"," ","/"," ","W","r","i","n","k","l","e","s">>>>,
    <<"anti-aging", <<"a","n","t","i","-","a","g","i","n","g">>>>,
    <<"wrinkles", <<"w","r","i","n","k","l","e","s">>>>,
    <<"fine lines", <<"f","i","n","e"," ","l","i","n","e","s">>>>,
    <<"aging", <<"a","g","i","n","g">>>>,
    <<"retinol", <<"r","e","t","i","n","o","l">>>>,
    <<"tretinoin", <<"t","r","e","t","i","n","o","i","n">>>>,
    <<"Hydration / Moisturizing", <<"H","y","d","r","a","t","i","o","n"," ","/"," ","M","o","i","s","t","u","r","i","z","i","n","g">>>>,
    <<"hydration", <<"h","y","d","r","a","t","i","o","n">>>>,
    <<"dry skin", <<"d","r","y"," ","s","k","i","n">>>>,
    <<"moisture", <<"m","o","i","s","t","u","r","e">>>>,
    <<"hydrating", <<"h","y","d","r","a","t","i","n","g">>>>,
    <<"moisturizer", <<"m","o","i","s","t","u","r","i","z","e","r">>>>,
    <<"plump", <<"p","l","u","m","p">>>>,
    <<"Sun Protection", <<"S","u","n"," ","P","r","o","t","e","c","t","i","o","n">>>>,
    <<"sunscreen", <<"s","u","n","s","c","r","e","e","n">>>>,
    <<"spf", <<"s","p","f">>>>,
    <<"sun protection", <<"s","u","n"," ","p","r","o","t","e","c","t","i","o","n">>>>,
    <<"uv", <<"u","v">>>>,
    <<"white cast", <<"w","h","i","t","e"," ","c","a","s","t">>>>,
    <<"Improves Skin Texture", <<"I","m","p","r","o","v","e","s"," ","S","k","i","n"," ","T","e","x","t","u","r","e">>>>,
    <<"texture", <<"t","e","x","t","u","r","e">>>>,
    <<"smooth", <<"s","m","o","o","t","h">>>>,
    <<"bumpy", <<"b","u","m","p","y">>>>,
    <<"keratosis pilaris", <<"k","e","r","a","t","o","s","i","s"," ","p","i","l","a","r","i","s">>>>,
    <<"kp", <<"k","p">>>>,
    <<"pores", <<"p","o","r","e","s">>>>,
    <<"TikTok / Online Forums", <<"T","i","k","T","o","k"," ","/"," ","O","n","l","i","n","e"," ","F","o","r","u","m","s">>>>,
    <<"  ", <<" "," ">>>>,
    <<" I hate CeraVe and Supergoop spf!", <<" ","I"," ","h","a","t","e"," ","C","e","r","a","V","e"," ","a","n","d"," ","S","u","p","e","r","g","o","o","p"," ","s","p","f","!">>>>,
    <<"supergoop, EltaMD: SPF", <<"s","u","p","e","r","g","o","o","p",","," ","E","l","t","a","M","D",":"," ","S","P","F">>>>,
    <<"cerave", <<"c","e","r","a","v","e">>>>,
    <<"s", <<"s">>>>,
    <<"s ", <<"s"," ">>>>,
    <<" ", <<" ">>>>,
    <<"-", <<"-">>>>,
    <<"_", <<"_">>>>,
    <<"Kojic", <<"K","o","j","i","c">>>>,
    <<"ACID", <<"A","C","I","D">>>>,
    <<" acne", <<" ","a","c","n","e">>>>,
    <<" SPF", <<" ","S","P","F">>>>,
    <<" pih", <<" ","p","i","h">>>>,
    <<" kp", <<" ","k","p">>>>,
    <<" anti-aging", <<" ","a","n","t","i","-","a","g","i","n","g">>>>,
    <<" clogged", <<" ","c","l","o","g","g","e","d">>>>,
    <<" Pores", <<" ","P","o","r","e","s">>>>,
    <<"cerave!", <<"c","e","r","a","v","e","!">>>>,
    <<"so, CERAVE?", <<"s","o",","," ","C","E","R","A","V","E","?">>>>,
    <<"Dark spots, the acid!", <<"D","a","r","k"," ","s","p","o","t","s",","," ","t","h","e"," ","a","c","i","d","!">>>>,
    <<"acid dark", <<"a","c","i","d"," ","d","a","r","k">>>>,
    <<"SPF_50 isn't on", <<"S","P","F","_","5","0"," ","i","s","n","'","t"," ","o","n">>>>,
    <<"CeraVe for dark spots", <<"C","e","r","a","V","e"," ","f","o","r"," ","d","a","r","k"," ","s","p","o","t","s">>>>,
    <<"uv acid", <<"u","v"," ","a","c","i","d">>>>,
    <<"I'm", <<"I","'","m">>>>,
    <<"", <<>>>>,
    <<"//duckduckgo.com/l/?uddg=https%3A%2F%2Fcerave.com", <<"/","/","d","u","c","k","d","u","c","k","g","o",".","c","o","m","/","l","/","?","u","d","d","g","=","h","t","t","p","s","%","3","A","%","2","F","%","2","F","c","e","r","a","v","e",".","c","o","m">>>>,
    <<"acid", <<"a","c","i","d">>>>,
    <<"retin", <<"r","e","t","i","n">>>>,
    <<"uddg=", <<"u","d","d","g","=">>>>,
    <<"spf acne", <<"s","p","f"," ","a","c","n","e">>>>,
    <<"http://", <<"h","t","t","p",":","/","/">>>>,
    <<"https://", <<"h","t","t","p","s",":","/","/">>>>,
    <<"Positive", <<"P","o","s","i","t","i","v","e">>>>,
    <<"Negative", <<"N","e","g","a","t","i","v","e">>>>,
    <<"Mixed", <<"M","i","x","e","d">>>>,
    <<"General Skincare", <<"G","e","n","e","r","a","l"," ","S","k","i","n","c","a","r","e">>>>,
    <<"Not Found", <<"N","o","t"," ","F","o","u","n","d">>>>,
    <<"Search Failed", <<"S","e","a","r","c","h"," ","F","a","i","l","e","d">>>>,
    <<"https://cerave.com", <<"h","t","t","p","s",":","/","/","c","e","r","a","v","e",".","c","o","m">>>>,
    <<"hate", <<"h","a","t","e">>>>,
    <<"supergoop", <<"s","u","p","e","r","g","o","o","p">>>>,
    <<"eltamd", <<"e","l","t","a","m","d">>>>,
    <<"hate hate", <<"h","a","t","e"," ","h","a","t","e">>>>,
    <<"hate cerave", <<"h","a","t","e"," ","c","e","r","a","v","e">>>>,
    <<"hate and", <<"h","a","t","e"," ","a","n","d">>>>,
    <<"hate supergoop", <<"h","a","t","e"," ","s","u","p","e","r","g","o","o","p">>>>,
    <<"hate spf", <<"h","a","t","e"," ","s","p","f">>>>,
    <<"hate eltamd", <<"h","a","t","e"," ","e","l","t","a","m","d">>>>,
    <<"cerave hate", <<"c","e","r","a","v","e"," ","h","a","t","e">>>>,
    <<"cerave cerave", <<"c","e","r","a","v","e"," ","c","e","r","a","v","e">>>>,
    <<"cerave and", <<"c","e","r","a","v","e"," ","a","n","d">>>>,
    <<"cerave supergoop", <<"c","e","r","a","v","e"," ","s","u","p","e","r","g","o","o","p">>>>,
    <<"cerave spf", <<"c","e","r","a","v","e"," ","s","p","f">>>>,
    <<"cerave eltamd", <<"c","e","r","a","v","e"," ","e","l","t","a","m","d">>>>,
    <<"and hate", <<"a","n","d"," ","h","a","t","e">>>>,
    <<"and cerave", <<"a","n","d"," ","c","e","r","a","v","e">>>>,
    <<"and and", <<"a","n","d"," ","a","n","d">>>>,
    <<"and supergoop", <<"a","n","d"," ","s","u","p","e","r","g","o","o","p">>>>,
    <<"and spf", <<"a","n","d"," ","s","p","f">>>>,
    <<"and eltamd", <<"a","n","d"," ","e","l","t","a","m","d">>>>,
    <<"supergoop hate", <<"s","u","p","e","r","g","o","o","p"," ","h","a","t","e">>>>,
    <<"supergoop cerave", <<"s","u","p","e","r","g","o","o","p"," ","c","e","r","a","v","e">>>>,
    <<"supergoop and", <<"s","u","p","e","r","g","o","o","p"," ","a","n","d">>>>,
    <<"supergoop supergoop", <<"s","u","p","e","r","g","o","o","p"," ","s","u","p","e","r","g","o","o","p">>>>,
    <<"supergoop spf", <<"s","u","p","e","r","g","o","o","p"," ","s","p","f">>>>,
    <<"supergoop eltamd", <<"s","u","p","e","r","g","o","o","p"," ","e","l","t","a","m","d">>>>,
    <<"spf hate", <<"s","p","f"," ","h","a","t","e">>>>,
    <<"spf cerave", <<"s","p","f"," ","c","e","r","a","v","e">>>>,
    <<"spf and", <<"s","p","f"," ","a","n","d">>>>,
    <<"spf supergoop", <<"s","p","f"," ","s","u","p","e","r","g","o","o","p">>>>,
    <<"spf spf", <<"s","p","f"," ","s","p","f">>>>,
    <<"spf eltamd", <<"s","p","f"," ","e","l","t","a","m","d">>>>,
    <<"eltamd hate", <<"e","l","t","a","m","d"," ","h","a","t","e">>>>,
    <<"eltamd cerave", <<"e","l","t","a","m","d"," ","c","e","r","a","v","e">>>>,
    <<"eltamd and", <<"e","l","t","a","m","d"," ","a","n","d">>>>,
    <<"eltamd supergoop", <<"e","l","t","a","m","d"," ","s","u","p","e","r","g","o","o","p">>>>,
    <<"eltamd spf", <<"e","l","t","a","m","d"," ","s","p","f">>>>,
    <<"eltamd eltamd", <<"e","l","t","a","m","d"," ","e","l","t","a","m","d">>>>,
    <<"dark", <<"d","a","r","k">>>>,
    <<"spots", <<"s","p","o","t","s">>>>,
    <<"spf_50", <<"s","p","f","_","5","0">>>>,
    <<"isn", <<"i","s","n">>>>,
    <<"t", <<"t">>>>,
    <<"m", <<"m">>>>,
    <<"dark dark", <<"d","a","r","k"," ","d","a","r","k">>>>,
    <<"dark the", <<"d","a","r","k"," ","t","h","e">>>>,
    <<"dark acid", <<"d","a","r","k"," ","a","c","i","d">>>>,
    <<"dark spf_50", <<"d","a","r","k"," ","s","p","f","_","5","0">>>>,
    <<"dark isn", <<"d","a","r","k"," ","i","s","n">>>>,
    <<"dark cerave", <<"d","a","r","k"," ","c","e","r","a","v","e">>>>,
    <<"dark for", <<"d","a","r","k"," ","f","o","r">>>>,
    <<"spots dark", <<"s","p","o","t","s"," ","d","a","r","k">>>>,
    <<"spots spots", <<"s","p","o","t","s"," ","s","p","o","t","s">>>>,
    <<"spots the", <<"s","p","o","t","s"," ","t","h","e">>>>,
    <<"spots acid", <<"s","p","o","t","s"," ","a","c","i","d">>>>,
    <<"spots spf_50", <<"s","p","o","t","s"," ","s","p","f","_","5","0">>>>,
    <<"spots isn", <<"s","p","o","t","s"," ","i","s","n">>>>,
    <<"spots cerave", <<"s","p","o","t","s"," ","c","e","r","a","v","e">>>>,
    <<"spots for", <<"s","p","o","t","s"," ","f","o","r">>>>,
    <<"the dark", <<"t","h","e"," ","d","a","r","k">>>>,
    <<"the spots", <<"t","h","e"," ","s","p","o","t","s">>>>,
    <<"the the", <<"t","h","e"," ","t","h","e">>>>,
    <<"the acid", <<"t","h","e"," ","a","c","i","d">>>>,
    <<"the spf_50", <<"t","h","e"," ","s","p","f","_","5","0">>>>,
    <<"the isn", <<"t","h","e"," ","i","s","n">>>>,
    <<"the cerave", <<"t","h","e"," ","c","e","r","a","v","e">>>>,
    <<"the for", <<"t","h","e"," ","f","o","r">>>>,
    <<"acid spots", <<"a","c","i","d"," ","s","p","o","t","s">>>>,
    <<"acid the", <<"a","c","i","d"," ","t","h","e">>>>,
    <<"acid acid", <<"a","c","i","d"," ","a","c","i","d">>>>,
    <<"acid spf_50", <<"a","c","i","d"," ","s","p","f","_","5","0">>>>,
    <<"acid isn", <<"a","c","i","d"," ","i","s","n">>>>,
    <<"acid cerave", <<"a","c","i","d"," ","c","e","r","a","v","e">>>>,
    <<"acid for", <<"a","c","i","d"," ","f","o","r">>>>,
    <<"spf_50 dark", <<"s","p","f","_","5","0"," ","d","a","r","k">>>>,
    <<"spf_50 spots", <<"s","p","f","_","5","0"," ","s","p","o","t","s">>>>,
    <<"spf_50 the", <<"s","p","f","_","5","0"," ","t","h","e">>>>,
    <<"spf_50 acid", <<"s","p","f","_","5","0"," ","a","c","i","d">>>>,
    <<"spf_50 spf_50", <<"s","p","f","_","5","0"," ","s","p","f","_","5","0">>>>,
    <<"spf_50 isn", <<"s","p","f","_","5","0"," ","i","s","n">>>>,
    <<"spf_50 cerave", <<"s","p","f","_","5","0"," ","c","e","r","a","v","e">>>>,
    <<"spf_50 for", <<"s","p","f","_","5","0"," ","f","o","r">>>>,
    <<"isn dark", <<"i","s","n"," ","d","a","r","k">>>>,
    <<"isn spots", <<"i","s","n"," ","s","p","o","t","s">>>>,
    <<"isn the", <<"i","s","n"," ","t","h","e">>>>,
    <<"isn acid", <<"i","s","n"," ","a","c","i","d">>>>,
    <<"isn spf_50", <<"i","s","n"," ","s","p","f","_","5","0">>>>,
    <<"isn isn", <<"i","s","n"," ","i","s","n">>>>,
    <<"isn cerave", <<"i","s","n"," ","c","e","r","a","v","e">>>>,
    <<"isn for", <<"i","s","n"," ","f","o","r">>>>,
    <<"cerave dark", <<"c","e","r","a","v","e"," ","d","a","r","k">>>>,
    <<"cerave spots", <<"c","e","r","a","v","e"," ","s","p","o","t","s">>>>,
    <<"cerave the", <<"c","e","r","a","v","e"," ","t","h","e">>>>,
    <<"cerave acid", <<"c","e","r","a","v","e"," ","a","c","i","d">>>>,
    <<"cerave spf_50", <<"c","e","r","a","v","e"," ","s","p","f","_","5","0">>>>,
    <<"cerave isn", <<"c","e","r","a","v","e"," ","i","s","n">>>>,
    <<"cerave for", <<"c","e","r","a","v","e"," ","f","o","r">>>>,
    <<"for dark", <<"f","o","r"," ","d","a","r","k">>>>,
    <<"for spots", <<"f","o","r"," ","s","p","o","t","s">>>>,
    <<"for the", <<"f","o","r"," ","t","h","e">>>>,
    <<"for acid", <<"f","o","r"," ","a","c","i","d">>>>,
    <<"for spf_50", <<"f","o","r"," ","s","p","f","_","5","0">>>>,
    <<"for isn", <<"f","o","r"," ","i","s","n">>>>,
    <<"for cerave", <<"f","o","r"," ","c","e","r","a","v","e">>>>,
    <<"for for", <<"f","o","r"," ","f","o","r">>>>
  >>

\* the characters of a string
Spell ==
  [s \in {Spelling[i][1] : i \in 1..Len(Spelling)} |->
     Spelling[CHOOSE i \in 1..Len(Spelling) : Spelling[i][1] = s][2]]

\* the string of a sequence of characters
Spelled ==
  [chars \in {Spelling[i][2] : i \in 1..Len(Spelling)} |->
     Spelling[CHOOSE i \in 1..Len(Spelling) : Spelling[i][2] = chars][1]]

Unspell(chars) == Spelled[chars]

\* ord(c), up to the gaps between the characters used
OrdTable == [c \in Range(Ascii) |-> CHOOSE i \in 1..Len(Ascii) : Ascii[i] = c]

Ord(c) == OrdTable[c]

\* str.lower(), one character: the i-th capital becomes the i-th small letter
LowerTable ==
  [c \in Range(Ascii) |->
     IF \E i \in 1..Len(UpperCase) : UpperCase[i] = c
     THEN LowerCase[CHOOSE i \in 1..Len(UpperCase) : UpperCase[i] = c]
     ELSE c]

LowerChar(c) == LowerTable[c]

lower(s) == [i \in 1..Len(s) |-> LowerChar(s[i])]

\* the regular expression class \w
WordChars == Range(UpperCase) \cup Range(LowerCase) \cup Range(Digits) \cup {"_"}

IsWordChar(c) == c \in WordChars

\* str.isspace(), one character
IsSpace(c) == c = " "

\* Python's `needle in hay` for str
Contains(hay, needle) ==
  \E i \in 1..(Len(hay) - Len(needle) + 1) : SubSeq(hay, i, i + Len(needle) - 1) = needle

\* Python's str `<`
RECURSIVE StrLess(_, _)
StrLess(a, b) ==
  IF a = <<>> THEN b # <<>>
  ELSE IF b = <<>> THEN FALSE
  ELSE IF a[1] = b[1] THEN StrLess(Tail(a), Tail(b))
  ELSE Ord(a[1]) < Ord(b[1])

\* str.strip()
RECURSIVE lstrip(_)
lstrip(s) == IF s # <<>> /\ IsSpace(s[1]) THEN lstrip(Tail(s)) ELSE s

RECURSIVE rstrip(_)
rstrip(s) == IF s # <<>> /\ IsSpace(s[Len(s)]) THEN rstrip(SubSeq(s, 1, Len(s) - 1)) ELSE s

strip(s) == rstrip(lstrip(s))

\* ' '.join(words)
RECURSIVE join(_)
join(words) ==
  IF words = <<>> THEN <<>>
  ELSE IF Len(words) = 1 THEN words[1]
  ELSE words[1] \o <<" ">> \o join(Tail(words))

RECURSIVE Concat(_)
Concat(parts) == IF parts = <<>> THEN <<>> ELSE parts[1] \o Concat(Tail(parts))

\* the characters of a raw line
LineChars(line) == Concat([p \in 1..Len(line) |-> Spell[line[p]]])

-----------------------------------------------------------------------------
(* analyze_product_mentions, app.py:44-62 *)

\* the regular expression assertion \b at the gap before s[i] (i = Len(s)+1: the end)
WordBoundary(s, i) ==
  LET before == i > 1 /\ IsWordChar(s[i - 1])
      after == i <= Len(s) /\ IsWordChar(s[i])
  IN before # after

\* re.search(r'\b' + re.escape(pattern) + r'\b', s): the escaped pattern is literal
re_search_word(pattern, s) ==
  \E i \in 1..(Len(s) - Len(pattern) + 1) :
    /\ WordBoundary(s, i)
    /\ SubSeq(s, i, i + Len(pattern) - 1) = pattern
    /\ WordBoundary(s, i + Len(pattern))

\* A variant of ProductFound that leaves out the two \b: a plain substring search
ProductFoundSubstring(product, text) == Contains(lower(text), lower(Spell[product]))

\* app.py:49
ProductFound(product, text) ==
  LET pattern == lower(Spell[product])
      lowered == lower(text)
  IN re_search_word(pattern, lowered)

\* 0.05 and -0.05 in units of 1/10000 (VADER rounds the compound score to 4 decimals)
PosThreshold == 500
NegThreshold == 0 - 500

\* A variant of Sentiment with strict comparisons: the thresholds themselves fall in Mixed
SentimentStrict(sentiment_score) ==
  IF sentiment_score > PosThreshold THEN "Positive"
  ELSE IF sentiment_score < NegThreshold THEN "Negative"
  ELSE "Mixed"

\* app.py:51-53
Sentiment(sentiment_score) ==
  IF sentiment_score >= PosThreshold THEN "Positive"
  ELSE IF sentiment_score <= NegThreshold THEN "Negative"
  ELSE "Mixed"

\* app.py:56
AnyKeywordIn(keywords, text) ==
  LET lowered == lower(text)
  IN \E j \in 1..Len(keywords) : Contains(lowered, Spell[keywords[j]])

\* app.py:55-57, the loop over claim_keywords.items() from entry k on
RECURSIVE ScanClaims(_, _, _)
ScanClaims(text, claim_keywords, k) ==
  IF k > Len(claim_keywords) THEN "General Skincare"
  ELSE IF AnyKeywordIn(claim_keywords[k].keywords, text) THEN claim_keywords[k].claim
  ELSE ScanClaims(text, claim_keywords, k + 1)

\* A variant of found_claim without the break: the last matching category wins
RECURSIVE ScanClaimsNoBreak(_, _, _, _)
ScanClaimsNoBreak(text, claim_keywords, k, found) ==
  IF k > Len(claim_keywords) THEN found
  ELSE ScanClaimsNoBreak(text, claim_keywords, k + 1,
         IF AnyKeywordIn(claim_keywords[k].keywords, text) THEN claim_keywords[k].claim ELSE found)

found_claim_last(text, claim_keywords) ==
  ScanClaimsNoBreak(text, claim_keywords, 1, "General Skincare")

\* app.py:54-57
found_claim(text, claim_keywords) == ScanClaims(text, claim_keywords, 1)

\* app.py:48-49, the inner loop from product j on: the products found in comment i
RECURSIVE InnerLoop(_, _, _, _)
InnerLoop(text_data, product_list, i, j) ==
  IF j > Len(product_list) THEN <<>>
  ELSE (IF ProductFound(product_list[j], text_data[i])
        THEN << [text |-> i, product |-> product_list[j]] >>
        ELSE <<>>)
       \o InnerLoop(text_data, product_list, i, j + 1)

\* app.py:47-49, the outer loop from comment i on: the (comment, product) pairs that
\* reach line 50, in the order they reach it
RECURSIVE OuterLoop(_, _, _)
OuterLoop(text_data, product_list, i) ==
  IF i > Len(text_data) THEN <<>>
  ELSE InnerLoop(text_data, product_list, i, 1) \o OuterLoop(text_data, product_list, i + 1)

Matches(text_data, product_list) == OuterLoop(text_data, product_list, 1)

\* app.py:50-58, the record appended for one match
MentionRecord(match, text_data, claim_keywords, platform) ==
  [product |-> match.product,
   platform |-> platform,
   claim |-> found_claim(text_data[match.text], claim_keywords),
   sentiment |-> Sentiment(sid[match.text])]

\* app.py:46-58
Mentions(text_data, product_list, claim_keywords, platform) ==
  LET matches == Matches(text_data, product_list)
  IN [k \in 1..Len(matches) |-> MentionRecord(matches[k], text_data, claim_keywords, platform)]

\* app.py:50, the comments passed to sid.polarity_scores
ScoredTexts(text_data, product_list) ==
  LET matches == Matches(text_data, product_list)
  IN [k \in 1..Len(matches) |-> matches[k].text]

\* the order of group keys: tuples of str, compared field by field
KeyLess(x, y) ==
  \/ StrLess(Spell[x.product], Spell[y.product])
  \/ /\ x.product = y.product
     /\ \/ StrLess(Spell[x.platform], Spell[y.platform])
        \/ /\ x.platform = y.platform
           /\ \/ StrLess(Spell[x.claim], Spell[y.claim])
              \/ /\ x.claim = y.claim
                 /\ StrLess(Spell[x.sentiment], Spell[y.sentiment])

RECURSIVE SortKeys(_)
SortKeys(keys) ==
  IF keys = {} THEN <<>>
  ELSE LET least == CHOOSE x \in keys : \A y \in keys \ {x} : KeyLess(x, y)
       IN <<least>> \o SortKeys(keys \ {least})

\* A variant of groupby_size that leaves out the sentiment from the group keys: the
\* rows of one product and claim are merged under the sentiment of one of them
groupby_size_no_sentiment(mentions) ==
  LET Same(x, y) == x.product = y.product /\ x.platform = y.platform /\ x.claim = y.claim
      firsts == {m \in Range(mentions) : \A o \in Range(mentions) : Same(m, o) => ~KeyLess(o, m)}
      keys == SortKeys(firsts)
  IN [g \in 1..Len(keys) |->
        [product |-> keys[g].product,
         platform |-> keys[g].platform,
         claim |-> keys[g].claim,
         sentiment |-> keys[g].sentiment,
         count |-> Cardinality({k \in 1..Len(mentions) : Same(mentions[k], keys[g])})]]

\* app.py:61, df.groupby([...]).size().reset_index(name=...): one row per distinct key,
\* in sorted key order, with the number of records of that key
groupby_size(mentions) ==
  LET keys == SortKeys(Range(mentions))
  IN [g \in 1..Len(keys) |->
        [product |-> keys[g].product,
         platform |-> keys[g].platform,
         claim |-> keys[g].claim,
         sentiment |-> keys[g].sentiment,
         count |-> Cardinality({k \in 1..Len(mentions) : mentions[k] = keys[g]})]]

\* the orders of the row indices I in which no row precedes one with a larger count
RECURSIVE DescendingOrders(_, _)
DescendingOrders(rows, I) ==
  IF I = {} THEN {<<>>}
  ELSE UNION {{<<i>> \o rest : rest \in DescendingOrders(rows, I \ {i})} :
                i \in {i \in I : \A j \in I : rows[i].count >= rows[j].count}}

\* A variant of sort_values that leaves out ascending=False: the stable ascending sort
RECURSIVE InsertAscending(_, _)
InsertAscending(sorted, row) ==
  IF sorted = <<>> THEN <<row>>
  ELSE IF sorted[Len(sorted)].count <= row.count THEN Append(sorted, row)
  ELSE Append(InsertAscending(SubSeq(sorted, 1, Len(sorted) - 1), row), sorted[Len(sorted)])

RECURSIVE SortAscending(_, _)
SortAscending(rows, n) ==
  IF n = 0 THEN <<>> ELSE InsertAscending(SortAscending(rows, n - 1), rows[n])

sort_values_ascending(rows) == {SortAscending(rows, Len(rows))}

\* app.py:62, sort_values(by=count, ascending=False) with the default kind='quicksort',
\* which pandas documents as not stable: the order of rows with equal counts is
\* whatever the numpy build produces, so every descending order is a possible result
sort_values(rows) ==
  {[k \in 1..Len(rows) |-> rows[order[k]]] : order \in DescendingOrders(rows, 1..Len(rows))}

-----------------------------------------------------------------------------
(* get_trending_keywords, app.py:65-80 *)

\* re.findall(r'\b\w+\b', s): left to right, the maximal runs of \w characters
RECURSIVE ScanWords(_, _, _, _)
ScanWords(s, i, word, found) ==
  IF i > Len(s) THEN (IF word = <<>> THEN found ELSE Append(found, word))
  ELSE IF IsWordChar(s[i]) THEN ScanWords(s, i + 1, Append(word, s[i]), found)
  ELSE ScanWords(s, i + 1, <<>>, IF word = <<>> THEN found ELSE Append(found, word))

re_findall_words(s) == ScanWords(s, 1, <<>>, <<>>)

\* the stop words, as the words are compared with them
StopWordChars == {Spell[w] : w \in STOP_WORDS}

\* A variant of KeepWord that leaves out the stop-word test
KeepLongWord(word) == Len(word) > 2

\* app.py:68, the condition of the comprehension
KeepWord(word) == word \notin StopWordChars /\ Len(word) > 2

\* app.py:68
words_of(text) == SelectSeq(re_findall_words(lower(text)), KeepWord)

\* app.py:66-69
RECURSIVE ExtendAll(_)
ExtendAll(text_data) ==
  IF text_data = <<>> THEN <<>> ELSE words_of(text_data[1]) \o ExtendAll(Tail(text_data))

\* app.py:70, list(zip(all_words, all_words[1:]))
zip_bigrams(words) ==
  IF Len(words) < 2 THEN <<>> ELSE [i \in 1..(Len(words) - 1) |-> <<words[i], words[i + 1]>>]

\* app.py:71, Counter(bigrams): the distinct bigrams in first-encountered order (a dict
\* keeps insertion order), each with its number of occurrences
RECURSIVE CounterFrom(_, _, _)
CounterFrom(bigrams, i, counter) ==
  IF i > Len(bigrams) THEN counter
  ELSE IF \E c \in 1..Len(counter) : counter[c].phrase = bigrams[i]
  THEN CounterFrom(bigrams, i + 1,
         [c \in 1..Len(counter) |->
            IF counter[c].phrase = bigrams[i]
            THEN [counter[c] EXCEPT !.freq = @ + 1] ELSE counter[c]])
  ELSE CounterFrom(bigrams, i + 1, Append(counter, [phrase |-> bigrams[i], freq |-> 1]))

Counter(bigrams) == CounterFrom(bigrams, 1, <<>>)

\* the n of most_common(n), app.py:73
MostCommonN == 5

\* A variant of nlargest that is not stable: among equal counts the item inserted last
\* comes first
RECURSIVE nlargest_latest(_, _)
nlargest_latest(n, items) ==
  IF n = 0 \/ items = <<>> THEN <<>>
  ELSE LET first == CHOOSE i \in 1..Len(items) :
                      /\ \A j \in 1..Len(items) : items[i].freq >= items[j].freq
                      /\ \A j \in (i + 1)..Len(items) : items[j].freq < items[i].freq
       IN <<items[first]>> \o
          nlargest_latest(n - 1,
            SubSeq(items, 1, first - 1) \o SubSeq(items, first + 1, Len(items)))

\* Counter.most_common(n) is heapq.nlargest(n, items, key=count), i.e.
\* sorted(items, key=count, reverse=True)[:n]: a stable sort, so among equal counts the
\* item inserted first comes first
RECURSIVE nlargest(_, _)
nlargest(n, items) ==
  IF n = 0 \/ items = <<>> THEN <<>>
  ELSE LET first == CHOOSE i \in 1..Len(items) :
                      /\ \A j \in 1..Len(items) : items[i].freq >= items[j].freq
                      /\ \A j \in 1..(i - 1) : items[j].freq < items[i].freq
       IN <<items[first]>> \o
          nlargest(n - 1, SubSeq(items, 1, first - 1) \o SubSeq(items, first + 1, Len(items)))

most_common(counter) == nlargest(MostCommonN, counter)

\* app.py:75-78: the later tests overwrite the earlier ones
explanation_of(keyword) ==
  IF Contains(keyword, Spell["dark spots"])
  THEN "A common concern users are actively seeking solutions for."
  ELSE IF Contains(keyword, Spell["sunscreen"]) \/ Contains(keyword, Spell["spf"])
  THEN "A cornerstone of skincare, consistently discussed."
  ELSE IF Contains(keyword, Spell["acid"]) \/ Contains(keyword, Spell["retin"])
  THEN "Trending due to its popularity as a powerful active ingredient."
  ELSE "High frequency in discussions suggests strong user interest."

\* app.py:72-80
keyword_insights(words) ==
  LET top == most_common(Counter(zip_bigrams(words)))
  IN [k \in 1..Len(top) |->
        [keyword |-> join(top[k].phrase),
         reason |-> explanation_of(join(top[k].phrase))]]

-----------------------------------------------------------------------------
(* trace_manufacturer, app.py:83-97 *)

\* requests.utils.unquote on the escapes that occur in the result links
RECURSIVE unquote(_)
unquote(s) ==
  IF s = <<>> THEN <<>>
  ELSE IF Len(s) >= 3 /\ SubSeq(s, 1, 3) = <<"%", "3", "A">>
  THEN <<":">> \o unquote(SubSeq(s, 4, Len(s)))
  ELSE IF Len(s) >= 3 /\ SubSeq(s, 1, 3) = <<"%", "2", "F">>
  THEN <<"/">> \o unquote(SubSeq(s, 4, Len(s)))
  ELSE <<s[1]>> \o unquote(Tail(s))

\* s.split(sep)[-1]: what follows the last occurrence of sep, or s when there is none
split_last(s, sep) ==
  LET at == {i \in 1..(Len(s) - Len(sep) + 1) : SubSeq(s, i, i + Len(sep) - 1) = sep}
  IN IF at = {} THEN s
     ELSE LET last == CHOOSE i \in at : \A j \in at : j <= i
          IN SubSeq(s, last + Len(sep), Len(s))

\* the exceptions of requests.get and raise_for_status: subclasses of RequestException
RequestExceptions == {"Timeout", "ConnectionError", "HTTPError"}

\* What the request and the parse of its body can give: an exception, or a page whose
\* first <a class="result__a"> is absent ("none"), has no href attribute ("nohref"), or
\* has the href given
Responses ==
  {[kind |-> k, anchor |-> "none", href |-> ""] : k \in RequestExceptions}
  \cup {[kind |-> "ok", anchor |-> "none", href |-> ""],
        [kind |-> "ok", anchor |-> "nohref", href |-> ""]}
  \cup {[kind |-> "ok", anchor |-> "href", href |-> h] : h \in Hrefs}

\* app.py:87-97. raised is the exception that leaves the function ("" when it returns)
trace_manufacturer(product_name, response) ==
  IF response.kind \in RequestExceptions
  THEN [raised |-> "", link |-> "Search Failed", note |-> "An error occurred during search."]
  ELSE IF response.anchor = "none"
  THEN [raised |-> "", link |-> "Not Found", note |-> "Could not automatically find a link."]
  ELSE IF response.anchor = "nohref"
  THEN [raised |-> "KeyError", link |-> "", note |-> ""]
  ELSE IF response.href = ""
  THEN [raised |-> "", link |-> "Not Found", note |-> "Could not automatically find a link."]
  ELSE [raised |-> "",
        link |-> Unspell(split_last(unquote(Spell[response.href]), Spell["uddg="])),
        note |-> "Successfully found a likely official link."]

-----------------------------------------------------------------------------
(* The "Analyze Data" button handler, app.py:216-293 *)

\* A variant of HasText that leaves out the strip(): the text is non-empty
HasTextUnstripped(raw_lines) == \E i \in 1..Len(raw_lines) : LineChars(raw_lines[i]) # <<>>

\* app.py:217, user_text.strip() is non-empty: some line holds a non-space character
HasText(raw_lines) == \E i \in 1..Len(raw_lines) : strip(LineChars(raw_lines[i])) # <<>>

\* app.py:223, the lines kept (`if line.strip()`), from line i on, by position
RECURSIVE KeptFrom(_, _)
KeptFrom(raw_lines, i) ==
  IF i > Len(raw_lines) THEN <<>>
  ELSE (IF strip(LineChars(raw_lines[i])) # <<>> THEN <<i>> ELSE <<>>)
       \o KeptFrom(raw_lines, i + 1)

split_lines(raw_lines) == KeptFrom(raw_lines, 1)

\* app.py:223, the comments: the kept lines, stripped
CommentsOf(raw_lines, kept) ==
  [k \in 1..Len(kept) |-> strip(LineChars(raw_lines[kept[k]]))]

\* df_summary['Product Name'].unique(): the distinct names in order of first appearance
RECURSIVE unique(_, _)
unique(names, seen) ==
  IF names = <<>> THEN <<>>
  ELSE IF names[1] \in seen THEN unique(Tail(names), seen)
  ELSE <<names[1]>> \o unique(Tail(names), seen \cup {names[1]})

\* app.py:230
top_2(summary) ==
  LET names == unique([k \in 1..Len(summary) |-> summary[k].product], {})
  IN SubSeq(names, 1, IF Len(names) < 2 THEN Len(names) ELSE 2)

\* app.py:216-223
Click ==
  /\ pc = "idle"
  /\ IF ~HasText(user_text)
     THEN /\ warning' = "Please paste some data into the text box before analyzing."
          /\ pc' = "warned"
          /\ UNCHANGED text_lines
     ELSE IF selected_products = <<>>
     THEN /\ warning' = "Please select at least one product to search for in the sidebar."
          /\ pc' = "warned"
          /\ UNCHANGED text_lines
     ELSE /\ text_lines' = split_lines(user_text)
          /\ pc' = "analyze"
          /\ UNCHANGED warning
  /\ UNCHANGED <<user_text, selected_products, sid, product_mentions, grouped, df_summary,
                 all_words, df_keywords, top_2_products, manufacturer_info, invoked,
                 scored, lookups, error>>

\* app.py:225, the call of analyze_product_mentions
Analyze ==
  /\ pc = "analyze"
  /\ LET text_data == CommentsOf(user_text, text_lines)
         mentions == Mentions(text_data, selected_products, CLAIM_KEYWORDS, platform_name)
         texts == ScoredTexts(text_data, selected_products)
     IN /\ product_mentions' = mentions
        /\ scored' = texts
        /\ invoked' = invoked \cup {"analyze_product_mentions"}
                      \cup (IF texts = <<>> THEN {} ELSE {"polarity_scores"})
        /\ IF mentions = <<>>
           THEN grouped' = <<>> /\ df_summary' = <<>>
           ELSE /\ grouped' = groupby_size(mentions)
                /\ df_summary' \in sort_values(groupby_size(mentions))
  /\ pc' = "keywords"
  /\ UNCHANGED <<user_text, selected_products, sid, warning, text_lines, all_words,
                 df_keywords, top_2_products, manufacturer_info, lookups, error>>

\* app.py:226-230, the call of get_trending_keywords and the choice of the products
\* to look up
Keywords ==
  /\ pc = "keywords"
  /\ LET words == ExtendAll(CommentsOf(user_text, text_lines))
         insights == keyword_insights(words)
     IN /\ all_words' = [i \in 1..Len(words) |-> Unspell(words[i])]
        /\ df_keywords' = [k \in 1..Len(insights) |->
                             [keyword |-> Unspell(insights[k].keyword),
                              reason |-> insights[k].reason]]
  /\ invoked' = invoked \cup {"get_trending_keywords"}
  /\ top_2_products' = IF df_summary = <<>> THEN <<>> ELSE top_2(df_summary)
  /\ pc' = "lookup"
  /\ UNCHANGED <<user_text, selected_products, sid, warning, text_lines, product_mentions,
                 grouped, df_summary, manufacturer_info, scored, lookups, error>>

\* app.py:231-234, one iteration of the loop: the request's outcome is the network's
Lookup ==
  /\ pc = "lookup"
  /\ top_2_products # <<>>
  /\ \E response \in Responses :
       LET product == Head(top_2_products)
           result == trace_manufacturer(product, response)
       IN IF result.raised # ""
          THEN /\ error' = result.raised
               /\ pc' = "raised"
               /\ UNCHANGED <<manufacturer_info, top_2_products>>
          ELSE /\ manufacturer_info' =
                    Append(manufacturer_info,
                           [product |-> product, link |-> result.link, note |-> result.note])
               /\ top_2_products' = Tail(top_2_products)
               /\ UNCHANGED <<error, pc>>
  /\ lookups' = Append(lookups, Head(top_2_products))
  /\ invoked' = invoked \cup {"trace_manufacturer"}
  /\ UNCHANGED <<user_text, selected_products, sid, warning, text_lines, product_mentions,
                 grouped, df_summary, all_words, df_keywords, scored>>

\* app.py:235-293: the results are shown and, when there is a summary, exported
Render ==
  /\ pc = "lookup"
  /\ top_2_products = <<>>
  /\ invoked' = invoked \cup (IF df_summary = <<>> THEN {} ELSE {"to_excel", "to_word", "to_pdf"})
  /\ pc' = "done"
  /\ UNCHANGED <<user_text, selected_products, sid, warning, text_lines, product_mentions,
                 grouped, df_summary, all_words, df_keywords, top_2_products,
                 manufacturer_info, scored, lookups, error>>

-----------------------------------------------------------------------------
(* Specifications *)

\* the sequences over S of length at most n
RECURSIVE SeqsUpTo(_, _)
SeqsUpTo(S, n) ==
  IF n = 0 THEN {<<>>}
  ELSE LET shorter == SeqsUpTo(S, n - 1)
       IN shorter \cup {Append(s, x) : s \in {t \in shorter : Len(t) = n - 1}, x \in S}

\* the subsequences of s: a selection lists the chosen options in the options' order
RECURSIVE SubSeqs(_)
SubSeqs(s) ==
  IF s = <<>> THEN {<<>>}
  ELSE LET rest == SubSeqs(Tail(s)) IN rest \cup {<<s[1]>> \o r : r \in rest}

\* the scorers of the comments of a text: the score is a function of the comment
Scorers(raw_lines, scores) ==
  LET texts == CommentsOf(raw_lines, split_lines(raw_lines))
  IN {f \in [1..Len(texts) -> scores] :
        \A i, j \in 1..Len(texts) : texts[i] = texts[j] => f[i] = f[j]}

\* the state before the button is pressed
Fresh ==
  /\ pc = "idle"
  /\ warning = ""
  /\ text_lines = <<>>
  /\ product_mentions = <<>>
  /\ grouped = <<>>
  /\ df_summary = <<>>
  /\ all_words = <<>>
  /\ df_keywords = <<>>
  /\ top_2_products = <<>>
  /\ manufacturer_info = <<>>
  /\ invoked = {}
  /\ scored = <<>>
  /\ lookups = <<>>
  /\ error = ""

\* the runs of the handler
MaxLines == 2

\* compound scores at the two thresholds and between them
MainScores == {NegThreshold, 0, PosThreshold}

Init ==
  /\ user_text \in SeqsUpTo(RawLines, MaxLines)
  /\ selected_products \in SubSeqs(Offered)
  /\ sid \in Scorers(user_text, MainScores)
  /\ Fresh

Next == Click \/ Analyze \/ Keywords \/ Lookup \/ Render

Spec == Init /\ [][Next]_vars

\* The specifications below are the runs of the handler over inputs chosen for one
\* function, up to the call of the function.

\* whole-word matching: one comment put together from pieces
MaxPieces == 3

InitMatch ==
  /\ user_text \in {<<pieces>> : pieces \in SeqsUpTo(MatchPieces, MaxPieces)}
  /\ selected_products \in SubSeqs(MatchProducts)
  /\ sid \in Scorers(user_text, {0})
  /\ Fresh

NextMatch == Click \/ Analyze

SpecMatch == InitMatch /\ [][NextMatch]_vars

\* claim classification: a comment that names CeraVe, followed by pieces that hold
\* keywords of the categories
MaxClaimPieces == 2

InitClaim ==
  /\ user_text \in {<< <<"cerave">> \o pieces >> : pieces \in SeqsUpTo(ClaimPieces, MaxClaimPieces)}
  /\ selected_products = <<"CeraVe">>
  /\ sid \in Scorers(user_text, {0})
  /\ Fresh

NextClaim == Click \/ Analyze

SpecClaim == InitClaim /\ [][NextClaim]_vars

\* sentiment buckets: the comments of SentimentText, scored at and around the
\* thresholds and at the ends of the range of the compound score
Scores ==
  {0 - 10000, NegThreshold - 1, NegThreshold, NegThreshold + 1, 0,
   PosThreshold - 1, PosThreshold, PosThreshold + 1, 10000}

InitSentiment ==
  /\ user_text = SentimentText
  /\ selected_products = <<"CeraVe">>
  /\ sid \in Scorers(user_text, Scores)
  /\ Fresh

NextSentiment == Click \/ Analyze

SpecSentiment == InitSentiment /\ [][NextSentiment]_vars

\* keyword extraction
MaxKeywordLines == 3

InitKeywords ==
  /\ user_text \in SeqsUpTo(KeywordLines, MaxKeywordLines)
  /\ selected_products = <<"CeraVe">>
  /\ sid \in Scorers(user_text, {0})
  /\ Fresh

NextKeywords == Click \/ Analyze \/ Keywords

SpecKeywords == InitKeywords /\ [][NextKeywords]_vars

-----
(* Properties *)

\* analyze_product_mentions has returned
Analyzed == pc \in {"keywords", "lookup", "done", "raised"}

\* get_trending_keywords has returned
Extracted == pc \in {"lookup", "done", "raised"}

\* two characters that differ at most in case
SameIgnoringCase(c, d) ==
  c = d \/ \E i \in 1..Len(UpperCase) : {c, d} = {UpperCase[i], LowerCase[i]}

\* the name stands in the comment at position i, whatever the case of the letters
OccursAt(name, comment, i) ==
  /\ i + Len(name) - 1 <= Len(comment)
  /\ \A k \in 1..Len(name) : SameIgnoringCase(comment[i + k - 1], name[k])

\* the name stands in the comment as a whole word: no word character before or after
AppearsAsWholeWord(name, comment) ==
  \E i \in 1..Len(comment) :
    /\ OccursAt(name, comment, i)
    /\ i = 1 \/ comment[i - 1] \notin WordChars
    /\ i + Len(name) > Len(comment) \/ comment[i + Len(name)] \notin WordChars

\* text_data, as the handler passes it
Comments == CommentsOf(user_text, text_lines)

\* the Mentions emitted for the i-th comment and the product
MentionsFor(i, product) ==
  {k \in 1..Len(product_mentions) : scored[k] = i /\ product_mentions[k].product = product}

\* C1: for every comment C of text_data and every product P of product_list, a Mention
\* is emitted for (C, P) iff P's name appears in C as a whole word, case-insensitively:
\* exactly one Mention when it does, none when it does not; and every Mention is of a
\* selected product and a comment of text_data.
C1_MentionIffWholeWord ==
  Analyzed =>
    /\ Len(scored) = Len(product_mentions)
    /\ \A k \in 1..Len(product_mentions) :
         /\ product_mentions[k].product \in Range(selected_products)
         /\ scored[k] \in 1..Len(Comments)
    /\ \A i \in 1..Len(Comments) : \A product \in Range(selected_products) :
         Cardinality(MentionsFor(i, product)) =
           IF AppearsAsWholeWord(Spell[product], Comments[i]) THEN 1 ELSE 0

\* a Mention of a comment that holds the name in another case than the product list's,
\* and holds it a second time inside a longer word
C1_Witness ==
  /\ Analyzed
  /\ \E k \in 1..Len(product_mentions) :
       LET name == Spell[product_mentions[k].product]
           comment == Comments[scored[k]]
       IN /\ ~Contains(comment, name)
          /\ \E i \in 1..Len(comment) :
               /\ OccursAt(name, comment, i)
               /\ i + Len(name) <= Len(comment)
               /\ comment[i + Len(name)] \in WordChars

\* the categories with a keyword that is a substring of the lowercased comment
Hits(comment) ==
  {c \in 1..Len(CLAIM_KEYWORDS) :
     \E keyword \in Range(CLAIM_KEYWORDS[c].keywords) :
       Contains(lower(comment), Spell[keyword])}

FixedCategories == {CLAIM_KEYWORDS[c].claim : c \in 1..Len(CLAIM_KEYWORDS)}

\* C2: the claim category of every Mention is one of the 6 fixed categories or the
\* default "General Skincare": the first category, in the order of CLAIM_KEYWORDS, with a
\* keyword that is a substring of the lowercased comment, and the default only when no
\* category has one.
C2_FirstMatchingCategory ==
  /\ Cardinality(FixedCategories) = 6
  /\ "General Skincare" \notin FixedCategories
  /\ Analyzed =>
       \A k \in 1..Len(product_mentions) :
         LET hits == Hits(Comments[scored[k]])
             claim == product_mentions[k].claim
         IN /\ claim \in FixedCategories \cup {"General Skincare"}
            /\ claim = "General Skincare" <=> hits = {}
            /\ \A c \in hits : (\A d \in hits : c <= d) => claim = CLAIM_KEYWORDS[c].claim

\* a Mention of a comment with keywords of several categories, where the keyword of the
\* later category stands first in the comment
C2_Witness ==
  /\ Analyzed
  /\ \E k \in 1..Len(product_mentions) :
       /\ Cardinality(Hits(Comments[scored[k]])) >= 2
       /\ Contains(lower(Comments[scored[k]]), Spell["spf acne"])
       /\ product_mentions[k].claim = CLAIM_KEYWORDS[2].claim

\* the four fields of a summary row
KeyOf(row) ==
  [product |-> row.product, platform |-> row.platform, claim |-> row.claim,
   sentiment |-> row.sentiment]

RECURSIVE SumCounts(_)
SumCounts(rows) == IF rows = <<>> THEN 0 ELSE rows[1].count + SumCounts(Tail(rows))

\* C3: the summary has one row for each distinct (Product, Platform, ClaimCategory,
\* SentimentBucket) among the Mentions, the count of a row is the number of Mentions
\* with its four fields, the counts sum to the number of Mentions, and the rows are in
\* non-increasing order of count.
C3_SummaryCounts ==
  Analyzed =>
    /\ {KeyOf(df_summary[r]) : r \in 1..Len(df_summary)} = Range(product_mentions)
    /\ \A r, s \in 1..Len(df_summary) : r # s => KeyOf(df_summary[r]) # KeyOf(df_summary[s])
    /\ \A r \in 1..Len(df_summary) :
         df_summary[r].count =
           Cardinality({k \in 1..Len(product_mentions) : product_mentions[k] = KeyOf(df_summary[r])})
    /\ SumCounts(df_summary) = Len(product_mentions)
    /\ \A r \in 1..(Len(df_summary) - 1) : df_summary[r].count >= df_summary[r + 1].count

\* a summary of three products where one row counts several Mentions and another one
C3_Witness ==
  /\ Analyzed
  /\ Cardinality({df_summary[r].product : r \in 1..Len(df_summary)}) = 3
  /\ \E r, s \in 1..Len(df_summary) :
       df_summary[r].count >= 2 /\ df_summary[s].count = 1

\* C4: the sentiment of a Mention is a function of the comment's compound score alone:
\* 0.05 or more gives Positive, -0.05 or less gives Negative, and every score strictly
\* between gives Mixed.
C4_SentimentThresholds ==
  Analyzed =>
    \A k \in 1..Len(product_mentions) :
      LET score == sid[scored[k]]
          sentiment == product_mentions[k].sentiment
      IN /\ 10000 * 5 <= 100 * score => sentiment = "Positive"
         /\ 100 * score <= 0 - 10000 * 5 => sentiment = "Negative"
         /\ (0 - 10000 * 5 < 100 * score /\ 100 * score < 10000 * 5) => sentiment = "Mixed"

\* Mentions scored exactly 0.05, exactly -0.05 and 0
C4_Witness ==
  /\ Analyzed
  /\ \E k \in 1..Len(product_mentions) :
       sid[scored[k]] = 500 /\ product_mentions[k].sentiment = "Positive"
  /\ \E k \in 1..Len(product_mentions) :
       sid[scored[k]] = 0 - 500 /\ product_mentions[k].sentiment = "Negative"
  /\ \E k \in 1..Len(product_mentions) :
       sid[scored[k]] = 0 /\ product_mentions[k].sentiment = "Mixed"

\* the words of a phrase: its maximal runs of characters other than the space
PhraseWords(phrase) ==
  {SubSeq(phrase, i, j) : <<i, j>> \in
     {<<i, j>> \in (1..Len(phrase)) \X (1..Len(phrase)) :
        /\ i <= j
        /\ \A k \in i..j : phrase[k] # " "
        /\ i = 1 \/ phrase[i - 1] = " "
        /\ j = Len(phrase) \/ phrase[j + 1] = " "}}

\* C5: get_trending_keywords returns at most 5 entries, and no returned phrase holds a
\* token that is in the stop-word set or has length 2 or less.
C5_KeywordsBounded ==
  Extracted =>
    /\ Len(df_keywords) <= 5
    /\ \A k \in 1..Len(df_keywords) :
         /\ Cardinality(PhraseWords(Spell[df_keywords[k].keyword])) \in {1, 2}
         /\ \A word \in PhraseWords(Spell[df_keywords[k].keyword]) :
              word \notin StopWordChars /\ ~(Len(word) <= 2)

\* the tokens of a lowercased comment, kept or not
TokensOf(comment) == re_findall_words(lower(comment))

\* 5 phrases returned where more than 5 tokens were kept, from comments that also held
\* a stop word and a token of length 2 or less
C5_Witness ==
  /\ Extracted
  /\ Len(df_keywords) = 5
  /\ Len(all_words) > 6
  /\ \E i \in 1..Len(Comments) : \E word \in Range(TokensOf(Comments[i])) :
       word \in StopWordChars /\ Len(word) > 2
  /\ \E i \in 1..Len(Comments) : \E word \in Range(TokensOf(Comments[i])) :
       word \notin StopWordChars /\ Len(word) <= 2

\* the maximal runs of word characters of s, as pairs of their first and last position
TokenSpans(s) ==
  {<<i, j>> \in (1..Len(s)) \X (1..Len(s)) :
     /\ i <= j
     /\ \A k \in i..j : s[k] \in WordChars
     /\ i = 1 \/ s[i - 1] \notin WordChars
     /\ j = Len(s) \/ s[j + 1] \notin WordChars}

\* the retained tokens of a comment, from left to right
RetainedTokens(comment) ==
  LET s == lower(comment)
      kept == {span \in TokenSpans(s) :
                 /\ span[2] - span[1] + 1 > 2
                 /\ SubSeq(s, span[1], span[2]) \notin StopWordChars}
  IN [n \in 1..Cardinality(kept) |->
        LET span == CHOOSE x \in kept : Cardinality({y \in kept : y[1] < x[1]}) = n - 1
        IN SubSeq(s, span[1], span[2])]

\* the single concatenation of the retained tokens of all comments
AllRetained == Concat([i \in 1..Len(Comments) |-> RetainedTokens(Comments[i])])

\* the bigrams of a sequence of words, their frequency and first position
BigramsOf(words) == {<<words[i], words[i + 1]>> : i \in 1..(Len(words) - 1)}

Frequency(words, bigram) ==
  Cardinality({i \in 1..(Len(words) - 1) : <<words[i], words[i + 1]>> = bigram})

FirstAt(words, bigram) ==
  CHOOSE i \in 1..(Len(words) - 1) :
    /\ <<words[i], words[i + 1]>> = bigram
    /\ \A j \in 1..(i - 1) : <<words[j], words[j + 1]>> # bigram

\* a ranks before b: more frequent, or as frequent and first encountered earlier
RanksBefore(words, a, b) ==
  \/ Frequency(words, a) > Frequency(words, b)
  \/ /\ Frequency(words, a) = Frequency(words, b)
     /\ FirstAt(words, a) < FirstAt(words, b)

\* C6: the bigrams are formed over the single concatenation of the retained tokens of
\* all comments in input order (so the last token of a comment and the first of the
\* next form a bigram); the result is the 5 most frequent bigrams in decreasing
\* frequency, ties broken by first encounter; it is empty with fewer than 2 tokens.
C6_TopBigrams ==
  Extracted =>
    LET words == AllRetained
        bigrams == BigramsOf(words)
    IN /\ [i \in 1..Len(all_words) |-> Spell[all_words[i]]] = words
       /\ Len(df_keywords) = IF Cardinality(bigrams) < 5 THEN Cardinality(bigrams) ELSE 5
       /\ Len(words) < 2 => df_keywords = <<>>
       /\ \A k \in 1..Len(df_keywords) :
            \E b \in bigrams :
              /\ Spell[df_keywords[k].keyword] = b[1] \o <<" ">> \o b[2]
              /\ Cardinality({a \in bigrams : RanksBefore(words, a, b)}) = k - 1

\* more than 5 distinct bigrams, the one left out as frequent as one returned, and a
\* returned bigram that stands in no single comment
C6_Witness ==
  /\ Extracted
  /\ LET words == AllRetained
         bigrams == BigramsOf(words)
         returned == {b \in bigrams :
                        \E k \in 1..Len(df_keywords) :
                          Spell[df_keywords[k].keyword] = b[1] \o <<" ">> \o b[2]}
     IN /\ Cardinality(bigrams) > 5
        /\ Cardinality(returned) = 5
        /\ \E a \in bigrams \ returned : \E b \in returned :
             Frequency(words, a) = Frequency(words, b)
        /\ \E b \in returned :
             \A i \in 1..Len(Comments) : b \notin BigramsOf(RetainedTokens(Comments[i]))

\* the number of Mentions emitted for a product
MentionCount(product) ==
  Cardinality({k \in 1..Len(product_mentions) : product_mentions[k].product = product})

MentionedProducts == {product_mentions[k].product : k \in 1..Len(product_mentions)}

\* C7: the manufacturer lookup is invoked only for the top 2 distinct products by
\* mention count: at most twice in a run, once per product, never for a product that
\* has fewer Mentions than a product not looked up, and not at all when the summary
\* is empty.
C7_LookupTopTwoByMentions ==
  /\ Len(lookups) <= 2
  /\ \A i, j \in 1..Len(lookups) : i # j => lookups[i] # lookups[j]
  /\ df_summary = <<>> => lookups = <<>>
  /\ pc = "done" =>
       /\ Range(lookups) \subseteq MentionedProducts
       /\ Len(lookups) = IF Cardinality(MentionedProducts) < 2
                         THEN Cardinality(MentionedProducts) ELSE 2
       /\ \A p \in Range(lookups) : \A q \in MentionedProducts \ Range(lookups) :
            MentionCount(q) <= MentionCount(p)

\* what a discovered link looks like
IsUrl(link) ==
  \/ Len(link) > 7 /\ SubSeq(link, 1, 7) = Spell["http://"]
  \/ Len(link) > 8 /\ SubSeq(link, 1, 8) = Spell["https://"]

\* C8: trace_manufacturer never raises, whatever the request and the parse of the page
\* give: every call returns a discovered URL, "Not Found" or "Search Failed".
C8_LookupNeverRaises ==
  /\ error = ""
  /\ pc # "raised"
  /\ Len(manufacturer_info) = Len(lookups)
  /\ \A k \in 1..Len(manufacturer_info) :
       \/ manufacturer_info[k].link \in {"Not Found", "Search Failed"}
       \/ IsUrl(Spell[manufacturer_info[k].link])

\* the text holds nothing but white space
WhitespaceOnly(raw_lines) ==
  \A i \in 1..Len(raw_lines) : \A c \in Range(LineChars(raw_lines[i])) : c = " "

\* C9: with empty or whitespace-only text, or with no product selected, the run warns
\* the user and goes no further: no analyzer, sentiment scorer, keyword extractor,
\* manufacturer lookup or exporter is invoked.
C9_InvalidInputOnlyWarns ==
  (WhitespaceOnly(user_text) \/ selected_products = <<>>) =>
    /\ pc \in {"idle", "warned"}
    /\ pc = "warned" => warning # ""
    /\ invoked = {}
    /\ scored = <<>>
    /\ lookups = <<>>
    /\ product_mentions = <<>> /\ df_summary = <<>> /\ df_keywords = <<>>
    /\ manufacturer_info = <<>>

\* the warning shown for a text of white space, with products selected
C9_Witness ==
  /\ pc = "warned"
  /\ warning # ""
  /\ user_text # <<>>
  /\ WhitespaceOnly(user_text)
  /\ selected_products # <<>>

\* the position of a row in the group-by result
GroupedAt(row) == CHOOSE g \in 1..Len(grouped) : grouped[g] = row

\* C10, as stated: the descending sort is stable, rows of equal count keep the
\* relative order of the group-by result.
C10_StableSort ==
  Analyzed =>
    \A r, s \in 1..Len(df_summary) :
      (r < s /\ df_summary[r].count = df_summary[s].count) =>
        GroupedAt(df_summary[r]) < GroupedAt(df_summary[s])

\* C10, amended: the summary holds the rows of the group-by result, each once, and a
\* row of larger count stands before every row of smaller count; the order of rows
\* of equal count is not fixed.
C10_SortRearrangesByCount ==
  Analyzed =>
    /\ Len(df_summary) = Len(grouped)
    /\ \A g \in 1..Len(grouped) :
         Cardinality({r \in 1..Len(df_summary) : df_summary[r] = grouped[g]}) = 1
    /\ \A r, s \in 1..Len(df_summary) :
         df_summary[r].count > df_summary[s].count => r < s

\* a summary with rows of different counts, and rows of equal count
C10_Witness ==
  /\ Analyzed
  /\ \E r, s \in 1..Len(df_summary) : df_summary[r].count > df_summary[s].count
  /\ \E r, s \in 1..Len(df_summary) : r # s /\ df_summary[r].count = df_summary[s].count

====
